---- MODULE Spec2Model ----
(***************************************************************************)
(* A model of the hook trampoline synthesis (FunctionHook), the hook       *)
(* object's descriptor lifecycle, the processor pinning guard               *)
(* (ProcessorExecutor), the host stack region (VmStack) and the driver's    *)
(* bring-up (driver_entry, virtualize_system, driver_unload) of             *)
(* hypervisor-rs.                                                           *)
(*                                                                         *)
(* Conventions.  A 64-bit address is a natural number below 2^31 (the      *)
(* model never adds enough to wrap); a 64-bit field whose full width        *)
(* matters (the VmStack paddings) is its 8 little-endian bytes.  Memory     *)
(* that the decoder reads is revealed one instruction at a time: each       *)
(* iteration of the decode loop draws the instruction found at the current  *)
(* position, which is equivalent to fixing the bytes beforehand because the *)
(* decoder reads every byte once, front to back.                            *)
(***************************************************************************)
EXTENDS Integers, Sequences, FiniteSets, TLC

VARIABLES
    \* ---- FunctionHook::trampoline_shellcode, one call in progress ----
    pc,           \* "idle" | "decode" | "encode" | "ret"
    call,         \* the arguments of the call in progress
    pos,          \* bytes of the read window the decoder has consumed
    total_bytes,  \* local total_bytes
    trampoline,   \* local trampoline: Vec<Instruction>
    instr,        \* the instruction the loop body last pushed or rejected
    classified,   \* it got past is_invalid and the break test
    cut_off,      \* the decoder last met a well-formed instruction that the
                  \* end of the byte slice cut off
    result,       \* what trampoline_shellcode returned
    \* ---- FunctionHook objects and the kernel's descriptors ----
    hooks,        \* the live FunctionHook values
    mdls,         \* descriptor id -> its kernel state
    next_mdl,     \* descriptors handed out so far
    patched,      \* address -> bytes that enable() wrote there
    bugcheck,     \* an exception nobody handles has stopped the system
    new_ret,      \* what the last FunctionHook::new returned
    \* ---- ProcessorExecutor ----
    proc_count,   \* KeQueryActiveProcessorCountEx(ALL_PROCESSOR_GROUPS)
    affinity,     \* the calling thread's group affinity
    guard,        \* the live ProcessorExecutor, or NoGuard
    aff_before,   \* the affinity when switch_to_processor was last entered
    sw_index,     \* the index it was last called with
    sw_ret,       \* "none" | "Some" | "None"
    set_reached,  \* the last call reached KeSetSystemGroupAffinityThread
    work,         \* outcome of the code run while pinned
    \* ---- VmStack ----
    stack_contents, vmx, padding_1, padding_2, padding_3,
    vmx_before,   \* vmx when setup was last entered
    setup_ret,    \* "none" | "Ok"
    \* ---- the driver: driver_entry, virtualize_system, driver_unload ----
    drv_pc,       \* "not_loaded" | "virtualize_system" | "driver_entry" |
                  \* "loaded" | "load_failed"
    vs_step,      \* the step virtualize_system executes next
    vs_log,       \* the steps it has executed, each with its outcome
    vs_ret,       \* what virtualize_system returned
    HYPERVISOR,   \* static mut HYPERVISOR: "None" | "Some"
    originals,    \* the *_ORIGINAL atomics that hold a trampoline address
    entry_status, \* what driver_entry returned
    unload_set,   \* driver.DriverUnload is set
    unload_calls, \* entries of driver_unload since the image was loaded
    hv_drops,     \* drops of the stored hypervisor since then
    loads         \* times the image has been loaded

trampVars ==
    <<pc, call, pos, total_bytes, trampoline, instr, classified, cut_off, result>>
hookVars == <<hooks, mdls, next_mdl, patched, bugcheck, new_ret>>
procVars == <<proc_count, affinity, guard, aff_before, sw_index, sw_ret, set_reached, work>>
stackVars == <<stack_contents, vmx, padding_1, padding_2, padding_3, vmx_before, setup_ret>>
driverVars ==
    <<drv_pc, vs_step, vs_log, vs_ret, HYPERVISOR, originals, entry_status,
      unload_set, unload_calls, hv_drops, loads>>
vars == <<trampVars, hookVars, procVars, stackVars, driverVars>>

(***************************************************************************)
(* Program constants.                                                      *)
(***************************************************************************)
JMP_SHELLCODE_LEN == 14
BP_SHELLCODE_LEN == 1
BASE_PAGE_SIZE == 4096
\* The longest x86 instruction; the floor of the read window.
MaxInstrLen == 15
KERNEL_STACK_SIZE == 24576
\* size_of::<*mut u64>()
PointerSize == 8
\* #[repr(C, align(4096))]
VmStackAlign == 4096
STACK_CONTENTS_SIZE == KERNEL_STACK_SIZE - PointerSize * 4

(***************************************************************************)
(* Bounds of the model.                                                    *)
(***************************************************************************)
\* required_size ranges over 1..MaxRequiredSize.
MaxRequiredSize == 14
\* FunctionHook::new is called at most MaxMdl times in a run.
MaxMdl == 2

\* The machine has 1..MaxProcessors logical processors, ProcsPerGroup to a
\* processor group.
MaxProcessors == 3
ProcsPerGroup == 2

\* stack_contents is followed at its first StackSamples - 1 offsets and at
\* its last one.
StackSamples == 3

\* The image is loaded at most MaxLoads times, driver_unload is entered at
\* most MaxUnloadCalls times per load, and a callee of virtualize_system
\* fails with one of MaxErrKinds errors.
MaxLoads == 2
MaxUnloadCalls == 2
MaxErrKinds == 2

\* Two function addresses: the first page-aligned, the second 16 bytes
\* before the end of another page.
Addrs == {BASE_PAGE_SIZE, 3 * BASE_PAGE_SIZE - 16}
Handlers == {7 * BASE_PAGE_SIZE}

\* The minimum sizes trampoline_shellcode is called with.
RequiredSizes == 1..MaxRequiredSize

(***************************************************************************)
(* Instructions as the decoder reports them.                               *)
(***************************************************************************)
FlowControls ==
    {"Next", "UnconditionalBranch", "IndirectBranch", "ConditionalBranch",
     "Return", "Call", "IndirectCall", "Interrupt", "XbeginXabortXend",
     "Exception"}

InstrLens == {5, 7, MaxInstrLen}

\* The length BlockEncoder gives an instruction when it re-encodes it.  The
\* encoder emits its own choice of encoding, so a decoded instruction that
\* carries a redundant prefix comes back shorter, and the model also lets a
\* multi-byte instruction come back one byte longer.  Only instructions
\* that can be relocated are ever re-encoded.
EncLens(len, flow, ip_rel) ==
    IF ip_rel \/ flow \notin {"Next", "Return"}
    THEN {len}
    ELSE {e \in {len - 1, len, len + 1} : e <= MaxInstrLen}

\* An IP-relative memory operand needs a ModRM byte and a 32-bit displacement.
ValidInstructions ==
    UNION {{[len |-> l, flow |-> f, ip_rel |-> r, invalid |-> FALSE, enc |-> e] :
                e \in EncLens(l, f, r)} :
           l \in InstrLens, f \in FlowControls,
           r \in BOOLEAN}

\* What the decoder returns for bytes that are no instruction, and for an
\* instruction that the end of the byte slice cuts off.
InvalidInstr ==
    [len |-> 1, flow |-> "Exception", ip_rel |-> FALSE, invalid |-> TRUE, enc |-> 1]

Instructions == {i \in ValidInstructions : i.ip_rel => i.len > 5} \cup {InvalidInstr}

NoInstr == [len |-> 0, flow |-> "Next", ip_rel |-> FALSE, invalid |-> FALSE, enc |-> 0]

\* int3, the byte enable() writes for a Breakpoint hook.
Int3Instr ==
    [len |-> 1, flow |-> "Interrupt", ip_rel |-> FALSE, invalid |-> FALSE, enc |-> 1]

\* jmp qword ptr [rip+0], the first six bytes of the jump shellcode.
JmpRipInstr ==
    [len |-> 6, flow |-> "IndirectBranch", ip_rel |-> TRUE, invalid |-> FALSE, enc |-> 6]

(***************************************************************************)
(* FunctionHook::jmp_shellcode and the byte-level helpers.                 *)
(***************************************************************************)
\* u64::to_le_bytes for the addresses of the model (all below 2^31).
LeBytes(v) ==
    [k \in 1..8 |-> IF k <= 4 THEN (v \div (256 ^ (k - 1))) % 256 ELSE 0]

\* ff 25 00 00 00 00 followed by the 8 bytes of the target.
JmpShellcode(target_address) ==
    <<255, 37, 0, 0, 0, 0>> \o LeBytes(target_address)

\* A byte of the k-th re-encoded instruction.  The values of relocated
\* code bytes are left opaque; they lie outside 0..255 so that no relocated
\* byte is mistaken for a byte of the jump sequence.
CodeByte(k) == 256 + k

\* A byte of Box::new_uninit_slice that nothing has written.
Uninit == 0 - 1

RECURSIVE EncodedFrom(_, _)
EncodedFrom(tr, k) ==
    IF k > Len(tr) THEN <<>>
    ELSE [j \in 1..tr[k].enc |-> CodeByte(k)] \o EncodedFrom(tr, k + 1)

\* BlockEncoder::encode(...).code_buffer for the instructions of tr.
BlockEncode(tr) == EncodedFrom(tr, 1)

\* copy_nonoverlapping(encoded, memory, encoded.len()) as far as it stays
\* inside the allocation; bytes beyond the copy keep their uninitialised value.
CopyInto(encoded, allocated) ==
    [k \in 1..allocated |-> IF k <= Len(encoded) THEN encoded[k] ELSE Uninit]

(***************************************************************************)
(* FunctionHook::trampoline_shellcode.                                     *)
(***************************************************************************)
IdleCall ==
    [fn |-> "none", original_address |-> 0, address |-> 0, required_size |-> 0,
     handler |-> 0, requested |-> "none"]

NoResult ==
    [kind |-> "none", err |-> "none", bytes |-> <<>>, copied |-> 0, allocated |-> 0]

Err(e) ==
    [kind |-> "Err", err |-> e, bytes |-> <<>>, copied |-> 0, allocated |-> 0]

\* usize::max(required_size * 2, 15)
Window(required_size) ==
    IF required_size * 2 > MaxInstrLen THEN required_size * 2 ELSE MaxInstrLen

\* The decoder at offset p of a slice of `window` bytes, where the bytes
\* spell instruction i: an instruction that runs past the end of the slice
\* comes back invalid.
DecodeAt(p, window, i) == IF p + i.len > window THEN InvalidInstr ELSE i

\* The instruction that starts with bytes written by enable().
PatchedInstr(bytes) == IF bytes[1] = 204 THEN Int3Instr ELSE JmpRipInstr

\* Classify with the Call arm moved to the relocatable instructions.
ClassifyCallRelocated(i) ==
    CASE i.flow \in {"Next", "Return", "Call"} -> "push"
      [] i.flow \in {"ConditionalBranch", "UnconditionalBranch", "IndirectCall"}
            -> "RelativeInstruction"
      [] OTHER -> "UnsupportedInstruction"

\* match instr.flow_control() { ... }
Classify(i) ==
    CASE i.flow \in {"Next", "Return"} -> "push"
      [] i.flow \in {"Call", "ConditionalBranch", "UnconditionalBranch", "IndirectCall"}
            -> "RelativeInstruction"
      [] OTHER -> "UnsupportedInstruction"

\* LoopBody with the control-flow match ahead of the IP-relative test.
LoopBodyFlowFirst(i, total, required_size) ==
    IF i.invalid THEN "InvalidBytes"
    ELSE IF total >= required_size THEN "break"
    ELSE IF Classify(i) # "push" THEN Classify(i)
    ELSE IF i.ip_rel THEN "RelativeInstruction"
    ELSE "push"

\* The body of `for instr in &mut decoder`, as the outcome of one iteration.
LoopBody(i, total, required_size) ==
    IF i.invalid THEN "InvalidBytes"
    ELSE IF total >= required_size THEN "break"
    ELSE IF i.ip_rel THEN "RelativeInstruction"
    ELSE Classify(i)

ResetLocals ==
    /\ pos' = 0
    /\ total_bytes' = 0
    /\ trampoline' = <<>>
    /\ instr' = NoInstr
    /\ classified' = FALSE
    /\ cut_off' = FALSE
    /\ result' = NoResult

\* A direct call of trampoline_shellcode(original_address, address,
\* required_size) on a function hooked in place (both addresses coincide).
CallTrampolineShellcode ==
    /\ pc = "idle"
    /\ ~bugcheck
    /\ \E o \in Addrs, n \in RequiredSizes :
         call' = [fn |-> "trampoline_shellcode", original_address |-> o,
                  address |-> o, required_size |-> n, handler |-> 0,
                  requested |-> "none"]
    /\ pc' = "decode"
    /\ ResetLocals
    /\ UNCHANGED <<hookVars, procVars, stackVars, driverVars>>

\* One iteration of the decode loop.
DecodeNext ==
    /\ pc = "decode"
    /\ pos < Window(call.required_size)
    /\ \E raw \in Instructions :
         /\ (pos = 0 /\ patched[call.address] # <<>>)
                => raw = PatchedInstr(patched[call.address])
         /\ LET i == DecodeAt(pos, Window(call.required_size), raw)
                o == LoopBody(i, total_bytes, call.required_size)
            IN  /\ instr' = IF o = "break" THEN instr ELSE i
                /\ pos' = pos + i.len
                /\ classified' = IF o = "break" THEN classified ELSE o # "InvalidBytes"
                /\ cut_off' = (i.invalid /\ ~raw.invalid)
                /\ CASE o = "push" ->
                          /\ total_bytes' = total_bytes + i.len
                          /\ trampoline' = Append(trampoline, i)
                          /\ pc' = "decode"
                          /\ UNCHANGED result
                     [] o = "break" ->
                          /\ pc' = "encode"
                          /\ UNCHANGED <<total_bytes, trampoline, result>>
                     [] OTHER ->
                          /\ result' = Err(o)
                          /\ pc' = "ret"
                          /\ UNCHANGED <<total_bytes, trampoline>>
    /\ UNCHANGED <<call, hookVars, procVars, stackVars, driverVars>>

\* The decoder has no bytes left: the loop ends without a break.
DecoderEnd ==
    /\ pc = "decode"
    /\ pos >= Window(call.required_size)
    /\ pc' = "encode"
    /\ UNCHANGED <<call, pos, total_bytes, trampoline, instr, classified, cut_off,
                   result, hookVars, procVars, stackVars, driverVars>>

\* What the function returns once the bytes are encoded: the allocation of
\* total_bytes + 14 bytes holding the re-encoded instructions followed by the
\* jump back.  A copy longer than the allocation writes past its end, which
\* either goes unnoticed or faults.
Built(original_address, total, tr) ==
    LET allocated == total + JMP_SHELLCODE_LEN
        code == BlockEncode(tr)
        jmp_back_address == original_address + Len(code)
        encoded == code \o JmpShellcode(jmp_back_address)
        ok == [kind |-> "Ok", err |-> "none", bytes |-> CopyInto(encoded, allocated),
               copied |-> Len(encoded), allocated |-> allocated]
    IN  IF Len(encoded) <= allocated
        THEN {ok}
        ELSE {ok, [ok EXCEPT !.kind = "Fault", !.bytes = <<>>]}

\* Everything after the loop.
Encode ==
    /\ pc = "encode"
    /\ IF total_bytes < call.required_size
       THEN result' = Err("NotEnoughBytes")
       ELSE IF trampoline = <<>>
       THEN result' = Err("NoInstructions")
       ELSE \/ result' = Err("EncodingFailed")
            \/ result' \in Built(call.original_address, total_bytes, trampoline)
    /\ pc' = "ret"
    /\ UNCHANGED <<call, pos, total_bytes, trampoline, instr, classified, cut_off,
                   hookVars, procVars, stackVars, driverVars>>

\* The direct caller takes the result.
Return ==
    /\ pc = "ret"
    /\ call.fn = "trampoline_shellcode"
    /\ pc' = "idle"
    /\ call' = IdleCall
    /\ ResetLocals
    /\ UNCHANGED <<hookVars, procVars, stackVars, driverVars>>

(***************************************************************************)
(* FunctionHook: new, enable, drop, and the kernel's memory descriptors.   *)
(***************************************************************************)
HookTypes == {"Jmp", "Breakpoint"}

PageOf(address) == address \div BASE_PAGE_SIZE

\* IoAllocateMdl(VirtualAddress, Length, ...): a descriptor of the buffer
\* [VirtualAddress, VirtualAddress + Length).
IoAllocateMdl(virtual_address, length) ==
    [state |-> "allocated", va |-> virtual_address, len |-> length,
     unlocks |-> 0, frees |-> 0]

\* The pages a descriptor spans, which MmProbeAndLockPages makes resident.
MdlPages(m) == PageOf(m.va)..PageOf(m.va + m.len - 1)

\* FunctionHook::new(original_address, hook_address, handler) is entered.
\* `requested` is the variant the caller would like; new has no parameter
\* that could carry it.
CallNew ==
    /\ pc = "idle"
    /\ ~bugcheck
    /\ next_mdl < MaxMdl
    /\ \E o \in Addrs, a \in Addrs, h \in Handlers, want \in HookTypes :
         call' = [fn |-> "new", original_address |-> o, address |-> a,
                  required_size |-> BP_SHELLCODE_LEN, handler |-> h,
                  requested |-> want]
    /\ pc' = "decode"
    /\ ResetLocals
    /\ new_ret' = "none"
    /\ UNCHANGED <<hooks, mdls, next_mdl, patched, bugcheck, procVars, stackVars, driverVars>>

\* The rest of new once trampoline_shellcode has returned.  mdl_ok: the
\* descriptor allocation gave a non-null pointer.  lock_ok: the pages could
\* be locked; MmProbeAndLockPages reports the contrary by raising an
\* exception, which nothing between new and the top of the stack handles.
NewFinish ==
    /\ pc = "ret"
    /\ call.fn = "new"
    /\ \E mdl_ok \in BOOLEAN, lock_ok \in BOOLEAN :
         LET id == next_mdl + 1
             hook == [trampoline |-> result.bytes,
                      hook_type |-> "Breakpoint",
                      hook_address |-> call.address,
                      mdl |-> id,
                      handler |-> call.handler,
                      relocated |-> total_bytes,
                      requested |-> call.requested]
         IN  CASE result.kind = "Err" ->
                    /\ new_ret' = "None"
                    /\ UNCHANGED <<hooks, mdls, next_mdl, bugcheck>>
               [] result.kind = "Fault" ->
                    /\ new_ret' = "Bugcheck"
                    /\ bugcheck' = TRUE
                    /\ UNCHANGED <<hooks, mdls, next_mdl>>
               [] result.kind = "Ok" /\ ~mdl_ok ->
                    /\ new_ret' = "None"
                    /\ UNCHANGED <<hooks, mdls, next_mdl, bugcheck>>
               [] result.kind = "Ok" /\ mdl_ok /\ ~lock_ok ->
                    /\ mdls' = [mdls EXCEPT ![id] =
                                   IoAllocateMdl(call.original_address, BASE_PAGE_SIZE)]
                    /\ next_mdl' = id
                    /\ new_ret' = "Bugcheck"
                    /\ bugcheck' = TRUE
                    /\ UNCHANGED hooks
               [] OTHER ->
                    /\ mdls' = [mdls EXCEPT ![id] =
                                   [IoAllocateMdl(call.original_address, BASE_PAGE_SIZE)
                                      EXCEPT !.state = "locked"]]
                    /\ next_mdl' = id
                    /\ hooks' = hooks \cup {hook}
                    /\ new_ret' = "Some"
                    /\ UNCHANGED bugcheck
    /\ pc' = "idle"
    /\ call' = IdleCall
    /\ ResetLocals
    /\ UNCHANGED <<patched, procVars, stackVars, driverVars>>

\* The bytes enable() writes for a hook.
EnableShellcode(h) ==
    IF h.hook_type = "Jmp" THEN JmpShellcode(h.handler) ELSE <<204>>

\* RtlCopyMemory(destination, source, length) over what was written there.
RtlCopyMemory(old, new) == new \o SubSeq(old, Len(new) + 1, Len(old))

Enable ==
    /\ pc = "idle"
    /\ ~bugcheck
    /\ \E h \in hooks :
         patched' = [patched EXCEPT ![h.hook_address] =
                       RtlCopyMemory(@, EnableShellcode(h))]
    /\ UNCHANGED <<trampVars, hooks, mdls, next_mdl, bugcheck, new_ret,
                   procVars, stackVars, driverVars>>

\* Drop for FunctionHook: MmUnlockPages, then IoFreeMdl.
DropHook ==
    /\ pc = "idle"
    /\ ~bugcheck
    /\ \E h \in hooks :
         /\ hooks' = hooks \ {h}
         /\ mdls' = [mdls EXCEPT ![h.mdl] =
                        [@ EXCEPT !.state = "freed",
                                  !.unlocks = @ + 1,
                                  !.frees = @ + 1]]
    /\ UNCHANGED <<trampVars, next_mdl, patched, bugcheck, new_ret,
                   procVars, stackVars, driverVars>>

(***************************************************************************)
(* ProcessorExecutor: switch_to_processor and Drop.                        *)
(***************************************************************************)
NoGuard == [live |-> FALSE, old_affinity |-> [Group |-> 0, Mask |-> 0]]

\* The group/number pair KeGetProcessorNumberFromIndex writes for an index.
ProcessorNumber(index) ==
    [Group |-> index \div ProcsPerGroup, Number |-> index % ProcsPerGroup]

\* processor_number_from_index: Some(number) when the kernel call reports
\* success, None otherwise.  The status is the kernel's answer; the code
\* only tests it.
ProcessorNumberFromIndex(index, nt_success) ==
    IF nt_success
    THEN [some |-> TRUE, number |-> ProcessorNumber(index)]
    ELSE [some |-> FALSE, number |-> ProcessorNumber(0)]

\* affinity.Group = processor_number.Group; affinity.Mask = 1 << Number
GroupAffinity(processor_number) ==
    [Group |-> processor_number.Group, Mask |-> 2 ^ processor_number.Number]

\* switch_to_processor(i).  resolve_ok and yield_failed are the statuses
\* of KeGetProcessorNumberFromIndex and ZwYieldExecution.
SwitchToProcessor ==
    /\ ~guard.live
    /\ \E i \in 0..(MaxProcessors + 1), resolve_ok \in BOOLEAN, yield_failed \in BOOLEAN :
         LET pn == ProcessorNumberFromIndex(i, resolve_ok) IN
         /\ sw_index' = i
         /\ aff_before' = affinity
         /\ work' = "none"
         /\ IF i > proc_count \/ ~pn.some
            THEN /\ sw_ret' = "None"
                 /\ set_reached' = FALSE
                 /\ UNCHANGED <<affinity, guard>>
            ELSE \* KeSetSystemGroupAffinityThread(&mut affinity, old_affinity)
                 /\ set_reached' = TRUE
                 /\ affinity' = GroupAffinity(pn.number)
                 /\ IF yield_failed
                    THEN /\ sw_ret' = "None"
                         /\ guard' = NoGuard
                    ELSE /\ sw_ret' = "Some"
                         /\ guard' = [live |-> TRUE, old_affinity |-> affinity]
    /\ UNCHANGED <<proc_count, trampVars, hookVars, stackVars, driverVars>>

\* The caller's code runs on the chosen processor and succeeds or fails.
RunPinned ==
    /\ guard.live
    /\ work = "none"
    /\ work' \in {"ok", "failed"}
    /\ UNCHANGED <<proc_count, affinity, guard, aff_before, sw_index, sw_ret,
                   set_reached, trampVars, hookVars, stackVars, driverVars>>

\* DropGuard without the call that reverts the affinity.
DropGuardNoRevert ==
    /\ guard.live
    /\ guard' = NoGuard
    /\ sw_ret' = "Dropped"
    /\ UNCHANGED <<proc_count, affinity, aff_before, sw_index, set_reached, work,
                   trampVars, hookVars, stackVars, driverVars>>

\* Drop for ProcessorExecutor:
\* KeRevertToUserGroupAffinityThread(self.old_affinity).
DropGuard ==
    /\ guard.live
    /\ affinity' = guard.old_affinity
    /\ guard' = NoGuard
    /\ sw_ret' = "Dropped"
    /\ UNCHANGED <<proc_count, aff_before, sw_index, set_reached, work,
                   trampVars, hookVars, stackVars, driverVars>>

(***************************************************************************)
(* VmStack.                                                                *)
(***************************************************************************)
\* The offsets of stack_contents the model follows.
SampleOffsets == (0..(StackSamples - 2)) \cup {STACK_CONTENTS_SIZE - 1}

ByteSamples == {0, 1, 255}

\* A u64 as its 8 little-endian bytes.
U64Max == [k \in 1..8 |-> 255]
U64Zero == [k \in 1..8 |-> 0]
U64Samples == {U64Zero, U64Max, [k \in 1..8 |-> IF k = 1 THEN 1 ELSE 0]}

VmxPointers == {0, BASE_PAGE_SIZE * 9, BASE_PAGE_SIZE * 10}

\* size_of::<VmStack>(): the four fields in declaration order, rounded up
\* to the alignment of the struct.
SizeOfVmStack ==
    LET fields == STACK_CONTENTS_SIZE + PointerSize + 8 + 8 + 8
    IN  ((fields + VmStackAlign - 1) \div VmStackAlign) * VmStackAlign

\* The host stack is in use during a VM-exit: a byte of it is overwritten.
HostStackWrite ==
    /\ \E o \in SampleOffsets, b \in ByteSamples :
         /\ stack_contents[o] # b
         /\ stack_contents' = [stack_contents EXCEPT ![o] = b]
    /\ setup_ret' = "none"
    /\ UNCHANGED <<vmx, padding_1, padding_2, padding_3, vmx_before,
                   trampVars, hookVars, procVars, driverVars>>

\* Setup that also nulls the vmx pointer.
SetupNullsVmx ==
    /\ vmx_before' = vmx
    /\ stack_contents' = [o \in SampleOffsets |-> 0]
    /\ vmx' = 0
    /\ padding_3' = U64Max
    /\ padding_2' = U64Max
    /\ padding_1' = U64Max
    /\ setup_ret' = "Ok"
    /\ UNCHANGED <<trampVars, hookVars, procVars, driverVars>>

\* VmStack::setup(vmstack)
Setup ==
    /\ vmx_before' = vmx
    /\ stack_contents' = [o \in SampleOffsets |-> 0]
    /\ padding_3' = U64Max
    /\ padding_2' = U64Max
    /\ padding_1' = U64Max
    /\ setup_ret' = "Ok"
    /\ UNCHANGED <<vmx, trampVars, hookVars, procVars, driverVars>>

(***************************************************************************)
(* The driver: driver_entry, virtualize_system, driver_unload.             *)
(***************************************************************************)
\* The fallible steps of virtualize_system in program order.  HookManager::new
\* (after hook_function_ptr) and update_ntoskrnl_cr3 (before virtualize_core)
\* cannot fail and belong to the step they follow or precede.
VsSteps ==
    <<"hook_function", "find_ssdt_function_address", "hook_function_ptr",
      "primary_ept_alloc", "secondary_ept_alloc",
      "primary_identity_2mb", "secondary_identity_2mb",
      "enable_hooks", "build", "virtualize_core">>

\* The steps whose None becomes HypervisorError::HookError.
HookSteps == {"hook_function", "hook_function_ptr"}

\* The atomic that receives trampoline_address() of a Function hook.
OriginalOf(step) ==
    IF step = "hook_function" THEN "MM_IS_ADDRESS_VALID_ORIGINAL"
    ELSE "NT_CREATE_FILE_ORIGINAL"

VsNone == [kind |-> "none", from |-> "none", code |-> 0]
VsOk == [kind |-> "Ok", from |-> "none", code |-> 0]

\* The error virtualize_system returns when a step fails: HookError for the
\* two hook constructors, the callee's own error otherwise.
VsErr(step, code) ==
    IF step \in HookSteps
    THEN [kind |-> "Err", from |-> "HookError", code |-> 0]
    ELSE [kind |-> "Err", from |-> step, code |-> code]

\* AfterStep with the result of enable_hooks ignored.
AfterStepEnableUnchecked(step, ok) ==
    IF ok \/ VsSteps[step] = "enable_hooks" THEN step + 1 ELSE 0

\* Where virtualize_system goes after a step: to the next step, or, through
\* `?` or `return Err(err)`, out of the function (0).
AfterStep(step, ok) == IF ok THEN step + 1 ELSE 0

\* driver_entry up to the call of virtualize_system, in a freshly loaded
\* image: its statics have their initial values.
DriverEntry ==
    /\ drv_pc = "not_loaded"
    /\ loads < MaxLoads
    /\ loads' = loads + 1
    /\ unload_set' = TRUE
    /\ HYPERVISOR' = "None"
    /\ originals' = {}
    /\ drv_pc' = "virtualize_system"
    /\ vs_step' = 1
    /\ vs_log' = <<>>
    /\ vs_ret' = VsNone
    /\ entry_status' = "none"
    /\ unload_calls' = 0
    /\ hv_drops' = 0
    /\ UNCHANGED <<trampVars, hookVars, procVars, stackVars>>

\* One step of virtualize_system.  ok and code are the callee's result;
\* is_function tells whether the hook it returned is a HookType::Function.
VirtualizeSystemStep ==
    /\ drv_pc = "virtualize_system"
    /\ vs_step \in 1..Len(VsSteps)
    /\ \E ok \in BOOLEAN, code \in 1..MaxErrKinds, is_function \in BOOLEAN :
         LET step == VsSteps[vs_step]
             after == AfterStep(vs_step, ok)
         IN  /\ vs_log' = Append(vs_log, [step |-> step, ok |-> ok])
             /\ originals' = IF ok /\ step \in HookSteps /\ is_function
                              THEN originals \cup {OriginalOf(step)}
                              ELSE originals
             /\ CASE after = 0 ->
                       /\ vs_ret' = VsErr(step, code)
                       /\ drv_pc' = "driver_entry"
                       /\ UNCHANGED <<vs_step, HYPERVISOR>>
                  [] after > Len(VsSteps) ->
                       \* unsafe { HYPERVISOR = Some(hv) }; Ok(())
                       /\ HYPERVISOR' = "Some"
                       /\ vs_ret' = VsOk
                       /\ drv_pc' = "driver_entry"
                       /\ UNCHANGED vs_step
                  [] OTHER ->
                       /\ vs_step' = after
                       /\ UNCHANGED <<vs_ret, HYPERVISOR, drv_pc>>
    /\ UNCHANGED <<entry_status, unload_set, unload_calls, hv_drops, loads,
                   trampVars, hookVars, procVars, stackVars>>

\* The rest of driver_entry: the match on the result of virtualize_system
\* (on Ok followed by the test call of MmIsAddressValid, which changes
\* nothing here).
DriverEntryReturn ==
    /\ drv_pc = "driver_entry"
    /\ IF vs_ret.kind = "Ok"
       THEN /\ entry_status' = "STATUS_SUCCESS"
            /\ drv_pc' = "loaded"
       ELSE /\ entry_status' = "STATUS_UNSUCCESSFUL"
            /\ drv_pc' = "load_failed"
    /\ UNCHANGED <<vs_step, vs_log, vs_ret, HYPERVISOR, originals, unload_set,
                   unload_calls, hv_drops, loads,
                   trampVars, hookVars, procVars, stackVars>>

\* driver_unload: if let Some(hypervisor) = HYPERVISOR.take() { drop(...) }
DriverUnload ==
    /\ drv_pc = "loaded"
    /\ unload_set
    /\ unload_calls < MaxUnloadCalls
    /\ unload_calls' = unload_calls + 1
    /\ IF HYPERVISOR = "Some"
       THEN /\ HYPERVISOR' = "None"
            /\ hv_drops' = hv_drops + 1
       ELSE UNCHANGED <<HYPERVISOR, hv_drops>>
    /\ UNCHANGED <<drv_pc, vs_step, vs_log, vs_ret, originals, entry_status,
                   unload_set, loads, trampVars, hookVars, procVars, stackVars>>

\* The system removes the image: after driver_entry failed, or after
\* driver_unload has run.
ImageRemoved ==
    /\ \/ drv_pc = "load_failed"
       \/ drv_pc = "loaded" /\ unload_calls > 0
    /\ drv_pc' = "not_loaded"
    /\ unload_set' = FALSE
    /\ UNCHANGED <<vs_step, vs_log, vs_ret, HYPERVISOR, originals, entry_status,
                   unload_calls, hv_drops, loads,
                   trampVars, hookVars, procVars, stackVars>>

(***************************************************************************)
(* Initial values.                                                         *)
(***************************************************************************)
TrampInit ==
    /\ pc = "idle"
    /\ call = IdleCall
    /\ pos = 0
    /\ total_bytes = 0
    /\ trampoline = <<>>
    /\ instr = NoInstr
    /\ classified = FALSE
    /\ cut_off = FALSE
    /\ result = NoResult

HookInit ==
    /\ hooks = {}
    /\ mdls = [m \in 1..MaxMdl |->
                 [state |-> "none", va |-> 0, len |-> 0, unlocks |-> 0, frees |-> 0]]
    /\ next_mdl = 0
    /\ patched = [a \in Addrs |-> <<>>]
    /\ bugcheck = FALSE
    /\ new_ret = "none"

ProcIdle ==
    /\ proc_count = 1
    /\ affinity = [Group |-> 0, Mask |-> 1]
    /\ guard = NoGuard
    /\ aff_before = [Group |-> 0, Mask |-> 1]
    /\ sw_index = 0
    /\ sw_ret = "none"
    /\ set_reached = FALSE
    /\ work = "none"

\* The active processors of group g on a machine with `count` processors.
ActiveInGroup(count, g) ==
    IF count - g * ProcsPerGroup >= ProcsPerGroup
    THEN ProcsPerGroup
    ELSE count - g * ProcsPerGroup

\* The affinities a thread can have there: a group that has processors and
\* a non-empty mask over the active processors of that group.
Affinities(count) ==
    UNION {{[Group |-> g, Mask |-> m] : m \in 1..(2 ^ ActiveInGroup(count, g) - 1)} :
           g \in 0..((count - 1) \div ProcsPerGroup)}

ProcInit ==
    /\ proc_count \in 1..MaxProcessors
    /\ affinity \in Affinities(proc_count)
    /\ guard = NoGuard
    /\ aff_before = affinity
    /\ sw_index = 0
    /\ sw_ret = "none"
    /\ set_reached = FALSE
    /\ work = "none"

\* A region with any content: the setup routine is handed memory that the
\* allocator and earlier use have filled.
StackInit ==
    /\ stack_contents \in [SampleOffsets -> ByteSamples]
    /\ vmx \in VmxPointers
    /\ padding_1 \in U64Samples
    /\ padding_2 \in U64Samples
    /\ padding_3 \in U64Samples
    /\ vmx_before = vmx
    /\ setup_ret = "none"

StackIdle ==
    /\ stack_contents = <<>>
    /\ vmx = 0
    /\ padding_1 = <<>>
    /\ padding_2 = <<>>
    /\ padding_3 = <<>>
    /\ vmx_before = 0
    /\ setup_ret = "none"

\* The image is not loaded.
DriverIdle ==
    /\ drv_pc = "not_loaded"
    /\ vs_step = 1
    /\ vs_log = <<>>
    /\ vs_ret = VsNone
    /\ HYPERVISOR = "None"
    /\ originals = {}
    /\ entry_status = "none"
    /\ unload_set = FALSE
    /\ unload_calls = 0
    /\ hv_drops = 0
    /\ loads = 0

(***************************************************************************)
(* Spec: trampoline_shellcode called directly, for every required_size.    *)
(***************************************************************************)
Init == TrampInit /\ HookInit /\ ProcIdle /\ StackIdle /\ DriverIdle

Next ==
    \/ CallTrampolineShellcode
    \/ DecodeNext
    \/ DecoderEnd
    \/ Encode
    \/ Return

Spec == Init /\ [][Next]_vars

(***************************************************************************)
(* SpecHook: hooks are created, enabled and dropped.                       *)
(***************************************************************************)
NextHook ==
    \/ CallNew
    \/ DecodeNext
    \/ DecoderEnd
    \/ Encode
    \/ NewFinish
    \/ Enable
    \/ DropHook

SpecHook == Init /\ [][NextHook]_vars

(***************************************************************************)
(* SpecProcessor: a thread pins itself and drops the guard, repeatedly.    *)
(***************************************************************************)
InitProcessor == TrampInit /\ HookInit /\ ProcInit /\ StackIdle /\ DriverIdle

NextProcessor ==
    \/ SwitchToProcessor
    \/ RunPinned
    \/ DropGuard

SpecProcessor == InitProcessor /\ [][NextProcessor]_vars

(***************************************************************************)
(* SpecVmStack: a host stack region is set up, used, and set up again.     *)
(***************************************************************************)
InitVmStack == TrampInit /\ HookInit /\ ProcIdle /\ StackInit /\ DriverIdle

NextVmStack ==
    \/ Setup
    \/ HostStackWrite

SpecVmStack == InitVmStack /\ [][NextVmStack]_vars

(***************************************************************************)
(* SpecDriver: the image is loaded, brought up, unloaded, and loaded again.*)
(***************************************************************************)
NextDriver ==
    \/ DriverEntry
    \/ VirtualizeSystemStep
    \/ DriverEntryReturn
    \/ DriverUnload
    \/ ImageRemoved

SpecDriver == Init /\ [][NextDriver]_vars

(***************************************************************************)
(* Properties of trampoline_shellcode (checked under Spec).                *)
(***************************************************************************)
DirectControl == {"Call", "ConditionalBranch", "UnconditionalBranch", "IndirectCall"}

\* The loop body has rejected or pushed instr while total_bytes was below
\* the minimum, and the function has returned.
Reached == pc = "ret" /\ classified

RECURSIVE SumLen(_, _)
SumLen(tr, k) == IF k > Len(tr) THEN 0 ELSE tr[k].len + SumLen(tr, k + 1)

\* C1 as stated: every Call, ConditionalBranch, UnconditionalBranch,
\* IndirectCall or IndirectBranch reached before the relocated bytes reach the
\* minimum makes trampoline_shellcode fail with RelativeInstruction, with no
\* trampoline, and none of them is ever in the relocated prefix.
C1_ControlFlowIsRelative ==
    /\ (Reached /\ instr.flow \in DirectControl \cup {"IndirectBranch"})
          => result = Err("RelativeInstruction")
    /\ \A k \in 1..Len(trampoline) :
          trampoline[k].flow \notin DirectControl \cup {"IndirectBranch"}

\* C1 amended: Call, ConditionalBranch, UnconditionalBranch and IndirectCall
\* fail with RelativeInstruction; an IndirectBranch fails with
\* UnsupportedInstruction, or with RelativeInstruction when it has an
\* IP-relative memory operand; in each case there is no trampoline, and none
\* of the five is ever in the relocated prefix.
C1_ControlFlowRejected ==
    /\ (Reached /\ instr.flow \in DirectControl)
          => result = Err("RelativeInstruction")
    /\ (Reached /\ instr.flow = "IndirectBranch")
          => result = Err(IF instr.ip_rel THEN "RelativeInstruction"
                          ELSE "UnsupportedInstruction")
    /\ \A k \in 1..Len(trampoline) :
          trampoline[k].flow \notin DirectControl \cup {"IndirectBranch"}

\* An IndirectBranch without IP-relative operand is rejected after a
\* relocated instruction, and a Call is rejected as the first instruction.
C1_Witness ==
    /\ Reached
    /\ instr.flow = "IndirectBranch"
    /\ ~instr.ip_rel
    /\ Len(trampoline) = 1
    /\ result = Err("UnsupportedInstruction")

\* C2: once the relocated Sequential/Return instructions total at least the
\* minimum, what follows them never turns the result into an error (only the
\* encoder's refusal of the prefix itself may), and a 5-byte first
\* instruction with minimum 1 gives a 19-byte trampoline.
C2_PrefixReachedSucceeds ==
    (pc = "ret" /\ total_bytes >= call.required_size) =>
        /\ result.kind = "Err" => result.err = "EncodingFailed"
        /\ (result.kind = "Ok" /\ call.required_size = 1 /\ trampoline[1].len = 5)
              => Len(result.bytes) = 19

\* C3: a returned trampoline is (sum of the decoded lengths) + 14 bytes long,
\* its last 14 bytes are the jump to original_address + that sum, whatever
\* the re-encoding produced, and the copy stays inside the allocation.
C3_TrampolineLayout ==
    (pc = "ret" /\ result.kind \in {"Ok", "Fault"}) =>
        LET relocated == SumLen(trampoline, 1) IN
        /\ result.copied <= result.allocated
        /\ result.kind = "Ok"
        /\ Len(result.bytes) = relocated + JMP_SHELLCODE_LEN
        /\ SubSeq(result.bytes, relocated + 1, relocated + JMP_SHELLCODE_LEN)
              = JmpShellcode(call.original_address + relocated)

\* C9: an instruction with an IP-relative memory operand that the loop body
\* reaches below the minimum fails with RelativeInstruction whatever its
\* control-flow class, and is never relocated.
C9_IpRelTakesPrecedence ==
    /\ (Reached /\ instr.ip_rel) => result = Err("RelativeInstruction")
    /\ \A k \in 1..Len(trampoline) : ~trampoline[k].ip_rel

\* An Interrupt-class instruction with an IP-relative operand, met after one
\* relocated instruction, was rejected with RelativeInstruction.
C9_Witness ==
    /\ Reached
    /\ instr.ip_rel
    /\ instr.flow = "Interrupt"
    /\ Len(trampoline) = 1
    /\ result = Err("RelativeInstruction")

\* C11: for every minimum N >= 1 the window of max(2N, 15) bytes is enough:
\* no well-formed instruction that is needed to reach the minimum is cut off
\* by the end of the read window and reported as malformed.
C11_WindowIsEnough ==
    ~(cut_off /\ total_bytes < call.required_size)

(***************************************************************************)
(* Properties of the hook object (checked under SpecHook).                 *)
(***************************************************************************)
\* C6: the descriptor of every hook that new returned is allocated and
\* locked over the page that contains hook_address, also when
\* original_address lies on another page.
C6_MdlCoversHookPage ==
    \A h \in hooks :
        /\ mdls[h.mdl].state = "locked"
        /\ PageOf(h.hook_address) \in MdlPages(mdls[h.mdl])

\* The descriptors that are allocated or locked at the moment.
HeldMdls == {m \in 1..MaxMdl : mdls[m].state \in {"allocated", "locked"}}

\* C7: every live hook holds one locked descriptor of its own; a descriptor
\* is unlocked and freed at most once, exactly once when its hook is
\* dropped; and a creation that fails, whatever the reason, leaves no
\* descriptor allocated or locked: the held descriptors are those of the
\* live hooks.
C7_LockPairing ==
    /\ \A h \in hooks : mdls[h.mdl].state = "locked"
    /\ \A h1, h2 \in hooks : h1.mdl = h2.mdl => h1 = h2
    /\ \A m \in 1..MaxMdl :
          /\ mdls[m].unlocks <= 1
          /\ mdls[m].frees <= 1
          /\ mdls[m].state = "freed" => (mdls[m].unlocks = 1 /\ mdls[m].frees = 1)
    /\ HeldMdls = {h.mdl : h \in hooks}

\* C8: a hook is a Breakpoint hook unless the caller asked for the
\* immediate-jump variant, and then it is a Jmp hook whose trampoline was
\* synthesized with minimum 14; for either variant enable() writes no more
\* bytes at the hook site than were relocated.
C8_VariantAsRequested ==
    \A h \in hooks :
        /\ h.requested = "Breakpoint" => h.hook_type = "Breakpoint"
        /\ h.requested = "Jmp" =>
              (h.hook_type = "Jmp" /\ h.relocated >= JMP_SHELLCODE_LEN)
        /\ Len(EnableShellcode(h)) <= h.relocated

(***************************************************************************)
(* Properties of the pinning guard (checked under SpecProcessor).          *)
(***************************************************************************)
\* switch_to_processor has just returned.
Switched == sw_ret \in {"Some", "None"}

\* C4: for every index at or above the processor count, switch_to_processor
\* returns no guard, never reaches the set-affinity step, and leaves the
\* thread's affinity as it was.
C4_OutOfRangeRejected ==
    (Switched /\ sw_index >= proc_count) =>
        /\ sw_ret = "None"
        /\ ~set_reached
        /\ affinity = aff_before

\* C5: after switch_to_processor succeeds for a valid index the thread's
\* affinity is the single-processor mask of that index, and once the guard is
\* dropped it is the affinity the thread had when it called, whether the
\* code run while pinned succeeded or failed.
C5_RoundTrip ==
    /\ (sw_ret = "Some" /\ sw_index < proc_count) =>
          /\ guard.live
          /\ affinity = [Group |-> sw_index \div ProcsPerGroup,
                         Mask |-> 2 ^ (sw_index % ProcsPerGroup)]
    /\ (sw_ret = "Dropped" /\ sw_index < proc_count) => affinity = aff_before

\* A guard for the first processor of the second group was dropped after
\* the pinned code failed, and the thread is back on an affinity that
\* differs from the pinned one.
C5_Witness ==
    /\ sw_ret = "Dropped"
    /\ sw_index = ProcsPerGroup
    /\ sw_index < proc_count
    /\ work = "failed"
    /\ affinity = aff_before
    /\ affinity # GroupAffinity(ProcessorNumber(sw_index))

\* C12: whenever switch_to_processor returns no guard (index out of range,
\* index not resolved to a group/number pair, or the yield reporting
\* non-success) the thread's affinity is what it was before the call: the
\* thread is never left pinned without a guard that will restore it.
C12_NoGuardNoPin ==
    (sw_ret = "None") =>
        /\ ~guard.live
        /\ affinity = aff_before

(***************************************************************************)
(* Properties of the host stack region (checked under SpecVmStack).        *)
(***************************************************************************)
\* C10: setup returns Ok and nothing else; right after it every byte of
\* stack_contents is 0, the three paddings are the all-ones 64-bit value and
\* vmx is what it was when setup was entered, however often setup has run;
\* the region is 0x6000 bytes, a multiple of the 4096-byte page.
C10_SetupPostcondition ==
    /\ setup_ret \in {"none", "Ok"}
    /\ setup_ret = "Ok" =>
          /\ \A o \in SampleOffsets : stack_contents[o] = 0
          /\ padding_1 = U64Max
          /\ padding_2 = U64Max
          /\ padding_3 = U64Max
          /\ vmx = vmx_before
    /\ SizeOfVmStack = KERNEL_STACK_SIZE
    /\ SizeOfVmStack = 6 * BASE_PAGE_SIZE

\* setup has run on a region whose back-pointer was populated, and the
\* pointer is still there.
C10_Witness ==
    /\ setup_ret = "Ok"
    /\ vmx # 0
    /\ vmx = vmx_before
    /\ \A o \in SampleOffsets : stack_contents[o] = 0
    /\ padding_1 = U64Max

(***************************************************************************)
(* Properties of the bring-up (checked under SpecDriver).                  *)
(***************************************************************************)
\* What has to have succeeded before virtualize_core is invoked.
BeforeVirtualizeCore ==
    {"hook_function", "hook_function_ptr", "primary_identity_2mb",
     "secondary_identity_2mb", "enable_hooks"}

\* A step of the current load has failed.
VsFailed == \E k \in 1..Len(vs_log) : ~vs_log[k].ok

\* C13: when virtualize_core is invoked, both hooks have been created, both
\* views identity-mapped and enable_hooks has returned success; after a step
\* failed no later step is executed and no step is ever executed twice, the
\* global HYPERVISOR stays unset and driver_entry returns
\* STATUS_UNSUCCESSFUL; HYPERVISOR is set only after every step succeeded;
\* driver_unload drops the stored hypervisor at most once.
C13_BringUpOrdering ==
    /\ \A k \in 1..Len(vs_log) :
          vs_log[k].step = "virtualize_core" =>
             \A b \in BeforeVirtualizeCore :
                \E j \in 1..(k - 1) : vs_log[j] = [step |-> b, ok |-> TRUE]
    /\ \A k \in 1..(Len(vs_log) - 1) : vs_log[k].ok
    /\ \A j, k \in 1..Len(vs_log) : j # k => vs_log[j].step # vs_log[k].step
    /\ VsFailed =>
          /\ HYPERVISOR = "None"
          /\ hv_drops = 0
          /\ drv_pc \in {"virtualize_system", "driver_entry", "load_failed", "not_loaded"}
          /\ entry_status \in {"none", "STATUS_UNSUCCESSFUL"}
          /\ drv_pc \in {"load_failed", "not_loaded"}
                => entry_status = "STATUS_UNSUCCESSFUL"
    /\ (HYPERVISOR = "Some" \/ hv_drops > 0 \/ entry_status = "STATUS_SUCCESS") =>
          /\ Len(vs_log) = Len(VsSteps)
          /\ ~VsFailed
    /\ hv_drops <= 1

\* The bring-up went through virtualize_core, the hypervisor was stored, and
\* driver_unload has been entered twice and dropped it once.
C13_Witness ==
    /\ entry_status = "STATUS_SUCCESS"
    /\ vs_log[Len(VsSteps)] = [step |-> "virtualize_core", ok |-> TRUE]
    /\ unload_calls = 2
    /\ hv_drops = 1
    /\ HYPERVISOR = "None"

====
